---- MODULE Spec2Model ----
(***************************************************************************)
(* YOLO model manager: the window (model_manager_window.py), the two       *)
(* background workers (worker_threads.py) and the model state queries      *)
(* (model_manager.py), as one state machine.                               *)
(*                                                                         *)
(* Strings the code takes apart (model identifiers, file names) are        *)
(* sequences of tokens: "yolov8n-seg" is <<"yolov8n", "-seg">>, and        *)
(* "x in m" is membership of the token x in m.  The empty string is <<>>.  *)
(* A path is [dir, name].  A text is [fmt, args]: the f-string's constant  *)
(* part and the values it interpolates, as strings; the model name,        *)
(* precision and path an f-string interpolates are fixed within a task     *)
(* and are left out of args.                                               *)
(***************************************************************************)
EXTENDS Integers, Sequences, FiniteSets, TLC

\* ------------------------------------------------------------------ bounds
\* Tasks (downloads or builds) the user starts in one session.
MaxTasks == 2

\* the longest list of identifiers of a version, where catalogs are
\* enumerated
MaxCatalog == 3
\* ------------------------------------------------------------- small helpers
Range(s) == {s[i] : i \in 1..Len(s)}

\* Python's None, where a path is expected
None == [dir |-> "", name |-> << >>]

Msg(f) == [fmt |-> f, args |-> << >>]

MsgArgs(f, a) == [fmt |-> f, args |-> a]

Last(s) == s[Len(s)]

Front(s) == SubSeq(s, 1, Len(s) - 1)

\* "x in m" for a token x of the identifier m
Contains(m, x) == \E i \in 1..Len(m) : m[i] = x

\* ------------------------------------------------------------------ inputs
\* models.json: version -> list of identifiers, in file order
VersionOrder == <<"YOLOv8", "Custom">>

model_data ==
  [v \in Range(VersionOrder) |->
     IF v = "YOLOv8"
     THEN << <<"yolov8n">>, <<"yolov8s">>, <<"yolov8n", "-seg">> >>
     ELSE << >>]

AllModels == UNION {Range(model_data[v]) : v \in Range(VersionOrder)}

\* The identifiers a catalog may list: a base name, alone or followed by one
\* task suffix
Suffixes == {"-seg", "-pose", "-obb", "-cls"}

Identifiers ==
  {<<b>> : b \in {"yolov8n", "yolov8s"}}
    \cup {<<b, x>> : b \in {"yolov8n", "yolov8s"}, x \in Suffixes}

\* the lists of at most MaxCatalog distinct identifiers
IdentifierLists ==
  UNION {{l \in [1..n -> Identifiers] :
            \A i, j \in 1..n : i # j => l[i] # l[j]} : n \in 0..MaxCatalog}

\* the catalogs models.json may hold: any such list for the first version,
\* and one identifier of each category, last category first, for the second
Catalogs ==
  {[v \in Range(VersionOrder) |->
      IF v = "YOLOv8" THEN l
      ELSE << <<"yolov8n", "-cls">>, <<"yolov8n", "-obb">>,
              <<"yolov8n", "-pose">>, <<"yolov8n", "-seg">>,
              <<"yolov8n">> >>] : l \in IdentifierLists}

\* The weight files on disk when the program starts
InitialWeights == { {}, {<<"yolov8n">>, <<"yolov8n", "-seg">>} }

Precisions == {"fp32", "fp16", "int8"}

\* Calibration references a task may be given; the second names a file
\* that no longer exists on disk when the task reads it.
CalibGood == [dir |-> "data", name |-> <<"coco8", ".yaml">>]

CalibGone == [dir |-> "data", name |-> <<"gone", ".yaml">>]

CalibChoices == {CalibGood, CalibGone}

\* what the calibration picker returns when the user chooses a file: an
\* open-file dialog returns a file that exists, and no file is deleted
\* while the application runs
PickerFiles == {CalibGood}

ExitCodes == {0, 1}

TempYaml == [dir |-> "tmp", name |-> <<"tmp", ".yaml">>]

\* A value of a calibration descriptor's key: the key may be missing; a
\* path is absolute or relative and is a sequence of components.
Absent == [present |-> FALSE, abs |-> FALSE, parts |-> << >>]

Rel(parts) == [present |-> TRUE, abs |-> FALSE, parts |-> parts]

Abs(parts) == [present |-> TRUE, abs |-> TRUE, parts |-> parts]

\* an empty YAML document
NoData == [path |-> Absent, train |-> Absent, val |-> Absent]

\* what the calibration file may hold
Descriptors ==
  { [path |-> Rel(<<"coco8">>), train |-> Rel(<<"images", "train">>),
     val |-> Rel(<<"images", "val">>)],
    [path |-> Absent, train |-> Rel(<<"..", "shared", "train">>),
     val |-> Abs(<<"mnt", "val">>)],
    [path |-> Abs(<<"datasets", "..", "coco8">>), train |-> Absent,
     val |-> Rel(<<"images", "val">>)] }

\* the descriptor the calibration file holds when the application runs
InstalledDescriptor ==
  [path |-> Rel(<<"coco8">>), train |-> Rel(<<"images", "train">>),
   val |-> Rel(<<"images", "val">>)]

\* ------------------------------------------------------------------- state
VARIABLES
  win,            \* ModelManagerWindow: its fields and its widgets' state
  window,         \* "open" | "closed" (closeEvent accepted)
  stack,          \* the interactive thread's nested frames, innermost last:
                  \*   modal dialogs being exec()ed and blocking wait() calls
  thread_running, \* self.worker_thread.isRunning()
  worker,         \* self.worker: the worker's fields, locals and position
  queue,          \* queued signals from the worker to the interactive thread
  fs,             \* the files that exist
  streams,        \* sys.stdout / sys.stderr
  gpu,            \* torch.cuda.is_available()
  trt,            \* "import tensorrt" succeeds
  contents,       \* what the YAML files hold: the calibration descriptor
                  \*   and the temporary copy
  manager,        \* self.model_manager: the ModelManager's fields
  answer,         \* the last query made of the ModelManager and the value
                  \*   it returned
  started         \* tasks started so far (bounded by MaxTasks)

vars == <<win, window, stack, thread_running, worker, queue, fs, streams,
          gpu, trt, contents, manager, answer, started>>

\* --------------------------------------------------------- model_manager.py
WeightsPath(name) == [dir |-> "weights", name |-> name]

EndsWithPt(model_name) == Len(model_name) > 0 /\ Last(model_name) = ".pt"

PtName(model_name) ==
  IF EndsWithPt(model_name) THEN model_name ELSE model_name \o <<".pt">>

\* a variant that keeps the ".pt" suffix
StemKeepsSuffix(name) == name

\* Path(name).stem for a name that ends in the suffix ".pt"
Stem(name) == Front(name)

get_engine_path(model_name, precision) ==
  WeightsPath(Stem(PtName(model_name)) \o <<"-", precision, ".engine">>)

engine_exists(model_name, precision) ==
  get_engine_path(model_name, precision) \in fs

model_file_path(model_name) == WeightsPath(PtName(model_name))

is_model_downloaded(model) == model_file_path(model) \in fs

is_engine_built(model, precision) == engine_exists(model, precision)

\* ModelManager.__init__: no model loaded; weights_dir is where
\* WeightsPath points
ModelManager ==
  [_current_model |-> "None", _current_model_name |-> "None",
   weights_dir |-> "weights"]

\* no query has been made
NoAnswer == [call |-> "none", model |-> << >>, precision |-> "", value |-> FALSE]

\* -------------------------------------------- ui/model_manager_window.py
Controls == {"version_combo", "task_combo", "model_combo", "download_btn",
             "btn_build_fp32", "btn_build_fp16", "btn_build_int8",
             "btn_pick_calib", "open_models_btn", "clear_log_btn"}

BuildBtn(precision) ==
  CASE precision = "fp32" -> "btn_build_fp32"
    [] precision = "fp16" -> "btn_build_fp16"
    [] precision = "int8" -> "btn_build_int8"

\* a variant that sorts the categories by name
TaskOrderByName ==
  <<"Classification", "Detection", "OBB", "Pose", "Segmentation">>

TaskOrder == <<"Detection", "Segmentation", "Pose", "OBB", "Classification">>

TipPrereq == "requires a CUDA-enabled GPU and TensorRT"

TipDownload == "download the model first"

TipCalib == "select a calibration YAML"

status_markup(present) == IF present THEN "Built" ELSE "Needs Building"

\* QComboBox.clear() then addItems(items): the first item becomes current
CurrentAfterFill(items, empty) == IF Len(items) > 0 THEN items[1] ELSE empty

\* the category _update_tasks appends for the identifier m
Classify(m) ==
  IF Contains(m, "-pose") THEN "Pose"
  ELSE IF Contains(m, "-seg") THEN "Segmentation"
  ELSE IF Contains(m, "-obb") THEN "OBB"
  ELSE IF Contains(m, "-cls") THEN "Classification"
  ELSE "Detection"

\* the filter of _update_models
InTask(m, task) ==
  \/ task = "Detection"
       /\ ~\E x \in {"-seg", "-pose", "-obb", "-cls"} : Contains(m, x)
  \/ task = "Segmentation" /\ Contains(m, "-seg")
  \/ task = "Pose" /\ Contains(m, "-pose")
  \/ task = "OBB" /\ Contains(m, "-obb")
  \/ task = "Classification" /\ Contains(m, "-cls")

\* self.model_data.get(version, [])
ModelsOf(w, version) ==
  IF version \in DOMAIN w.model_data THEN w.model_data[version] ELSE << >>

is_gpu_available == gpu

is_tensorrt_installed == trt

\* a variant that does not ask for TensorRT
GpuOkWithoutTensorRT == is_gpu_available

\* a variant that does not ask for the calibration reference
CanBuildInt8WithoutCalibration(w, is_downloaded) ==
  is_downloaded /\ is_gpu_available /\ is_tensorrt_installed

\* lines 434, 448, 456-458: the build prerequisites
is_gpu_ok == is_gpu_available /\ is_tensorrt_installed

can_build(is_downloaded) == is_downloaded /\ is_gpu_ok

can_build_int8(w, is_downloaded) ==
  is_downloaded /\ is_gpu_ok /\ w.calibration_yaml_path # None

\* a variant that forgets the download button
SetUiEnabledSkipsDownload(w, enabled) ==
  [w EXCEPT !.enabled = [c \in Controls |->
     IF c = "download_btn" THEN w.enabled[c] ELSE enabled]]

_set_ui_enabled(w, enabled) ==
  [w EXCEPT !.enabled = [c \in Controls |-> enabled]]

\* a variant that offers the download only while the weights are missing
UpdateModelStatusDownloadOnce(w) ==
  LET model == w.model_combo IN
  IF model = << >> THEN
    [w EXCEPT !.model_status_label = "",
              !.enabled = [c \in Controls |->
                 IF c \in {"download_btn", "btn_build_fp32", "btn_build_fp16",
                           "btn_build_int8"}
                 THEN FALSE ELSE w.enabled[c]],
              !.lbl_status = [p \in Precisions |-> status_markup(FALSE)]]
  ELSE
    LET is_downloaded == is_model_downloaded(model)
        build_text == [p \in Precisions |->
          IF engine_exists(model, p) THEN <<"Rebuild">> ELSE <<"Build">>]
    IN
    [w EXCEPT
       !.model_status_label =
          IF is_downloaded THEN "Downloaded" ELSE "Not Downloaded",
       !.download_text =
          IF is_downloaded THEN "Re-download Model" ELSE "Download Model",
       !.lbl_status = [p \in Precisions |->
          status_markup(engine_exists(model, p))],
       !.build_text = build_text,
       !.enabled = [c \in Controls |->
          CASE c = "download_btn" -> ~is_downloaded
            [] c \in {"btn_build_fp32", "btn_build_fp16"} ->
                 can_build(is_downloaded)
            [] c = "btn_build_int8" -> can_build_int8(w, is_downloaded)
            [] OTHER -> w.enabled[c]],
       !.tooltip = [p \in Precisions |->
          IF ~is_gpu_ok THEN TipPrereq
          ELSE IF ~is_downloaded THEN TipDownload
          ELSE IF /\ p = "int8"
                  /\ Contains(build_text["int8"], "INT8")
                  /\ w.calibration_yaml_path = None
               THEN TipCalib
          ELSE w.tooltip[p]]]

_update_model_status(w) ==
  LET model == w.model_combo IN
  IF model = << >> THEN
    [w EXCEPT !.model_status_label = "",
              !.enabled = [c \in Controls |->
                 IF c \in {"download_btn", "btn_build_fp32", "btn_build_fp16",
                           "btn_build_int8"}
                 THEN FALSE ELSE w.enabled[c]],
              !.lbl_status = [p \in Precisions |-> status_markup(FALSE)]]
  ELSE
    LET is_downloaded == is_model_downloaded(model)
        build_text == [p \in Precisions |->
          IF engine_exists(model, p) THEN <<"Rebuild">> ELSE <<"Build">>]
    IN
    [w EXCEPT
       !.model_status_label =
          IF is_downloaded THEN "Downloaded" ELSE "Not Downloaded",
       !.download_text =
          IF is_downloaded THEN "Re-download Model" ELSE "Download Model",
       !.lbl_status = [p \in Precisions |->
          status_markup(engine_exists(model, p))],
       !.build_text = build_text,
       !.enabled = [c \in Controls |->
          CASE c = "download_btn" -> TRUE
            [] c \in {"btn_build_fp32", "btn_build_fp16"} ->
                 can_build(is_downloaded)
            [] c = "btn_build_int8" -> can_build_int8(w, is_downloaded)
            [] OTHER -> w.enabled[c]],
       !.tooltip = [p \in Precisions |->
          IF ~is_gpu_ok THEN TipPrereq
          ELSE IF ~is_downloaded THEN TipDownload
          ELSE IF /\ p = "int8"
                  /\ Contains(build_text["int8"], "INT8")
                  /\ w.calibration_yaml_path = None
               THEN TipCalib
          ELSE w.tooltip[p]]]

\* a variant that fills the model selector and leaves the status as it was
UpdateModelsWithoutStatus(w) ==
  LET models == ModelsOf(w, w.version_combo)
      Keep(m) == InTask(m, w.task_combo)
      filtered == SelectSeq(models, Keep)
  IN [w EXCEPT !.model_items = filtered,
               !.model_combo = CurrentAfterFill(filtered, << >>)]

_update_models(w) ==
  LET models == ModelsOf(w, w.version_combo)
      Keep(m) == InTask(m, w.task_combo)
      filtered == SelectSeq(models, Keep)
  IN _update_model_status(
       [w EXCEPT !.model_items = filtered,
                 !.model_combo = CurrentAfterFill(filtered, << >>)])

_update_tasks(w) ==
  LET models == ModelsOf(w, w.version_combo)
      tasks == {Classify(m) : m \in Range(models)}
      Present(t) == t \in tasks
      task_set == SelectSeq(TaskOrder, Present)
  IN _update_models(
       [w EXCEPT !.task_items = task_set,
                 !.task_combo = CurrentAfterFill(task_set, "")])

\* the widgets as _setup_ui leaves them, and the fields __init__ sets
SetupUi ==
  [ model_data |-> model_data,
    version_combo |-> CurrentAfterFill(VersionOrder, ""),
    task_items |-> << >>,
    task_combo |-> "",
    model_items |-> << >>,
    model_combo |-> << >>,
    enabled |-> [c \in Controls |-> TRUE],
    download_text |-> "Download Model",
    build_text |-> [p \in Precisions |-> <<"Build">>],
    tooltip |-> [p \in Precisions |-> ""],
    model_status_label |-> "",
    lbl_status |-> [p \in Precisions |-> status_markup(FALSE)],
    lbl_calib |-> None,
    calibration_yaml_path |-> None,
    progress_bar |-> "hidden",
    log_output |-> << >> ]

\* ------------------------------------------------- interactive thread
NoSig == [sig |-> "none"]

\* a frame that shows no message box (a blocking wait())
NoBox == [icon |-> "none", title |-> "", text |-> Msg("")]

\* a variant that shows every outcome as information
BoxAlwaysInformation(sig) ==
  IF sig.sig = "download_complete"
  THEN [icon |-> "information", title |-> "Download Complete",
        text |-> sig.message]
  ELSE [icon |-> "information", title |-> "Task Complete",
        text |-> MsgArgs("Engine ({}) for {} built successfully.",
                         <<sig.precision, sig.model_name>>)]

\* the QMessageBox of _on_download_complete (lines 536-539) and of
\* _on_engine_built (lines 545-556); model_name is passed on as the signal
\* carries it
OutcomeBox(sig) ==
  IF sig.sig = "download_complete"
  THEN IF sig.success
       THEN [icon |-> "information", title |-> "Download Complete",
             text |-> sig.message]
       ELSE [icon |-> "critical", title |-> "Download Failed",
             text |-> sig.message]
  ELSE IF sig.success
       THEN [icon |-> "information", title |-> "Task Complete",
             text |-> MsgArgs("Engine ({}) for {} built successfully.",
                              <<sig.precision, sig.model_name>>)]
       ELSE [icon |-> "critical", title |-> "Task Failed",
             text |-> MsgArgs("Failed to build engine for {}. {}",
                              <<sig.model_name, sig.message>>)]

\* the QMessageBox.question of closeEvent (lines 631-637)
CloseQuestionBox ==
  [icon |-> "question", title |-> "Task in Progress",
   text |-> Msg("A task is currently running. Are you sure you want to quit?")]

Frame(kind, sig) ==
  [kind |-> kind, sig |-> sig,
   box |-> CASE kind = "done_box" -> OutcomeBox(sig)
             [] kind = "close_question" -> CloseQuestionBox
             [] OTHER -> NoBox]

Top == IF stack = << >> THEN "none" ELSE Last(stack).kind

\* a variant in which the outcome's message box is not modal
ResponsiveUnderMessageBox ==
  window = "open" /\ Top \in {"none", "done_box"}

\* the main window takes user input: it is shown and no modal dialog or
\* blocking call is above it
Responsive == window = "open" /\ stack = << >>

\* an event loop of the interactive thread is running (the application's, a
\* modal dialog's exec(), or processEvents() called by _append_log), so
\* queued signals are delivered
Dispatching ==
  window = "open" /\ Top \in {"none", "done_box", "close_question"}

NoWorker ==
  [ kind |-> "none", model_name |-> << >>, precision |-> "",
    device |-> "", calibration_yaml_path |-> None, pc |-> "none",
    temp_yaml_file |-> None, cmd |-> << >>, returncode |-> {},
    exc |-> [type |-> "none", msg |-> ""], written |-> << >>,
    old_stdout |-> "", old_stderr |-> "" ]

ModelDownloadWorker(model_name) ==
  [NoWorker EXCEPT !.kind = "download", !.model_name = model_name,
                   !.pc = "d_begin"]

EngineExportWorker(model_name, precision, device, calibration_yaml_path) ==
  [NoWorker EXCEPT !.kind = "export", !.model_name = model_name,
                   !.precision = precision, !.device = device,
                   !.calibration_yaml_path = calibration_yaml_path,
                   !.pc = "e_begin"]

Init ==
  /\ gpu \in BOOLEAN
  /\ trt \in BOOLEAN
  /\ \E present \in InitialWeights :
       fs = {WeightsPath(m \o <<".pt">>) : m \in present} \cup {CalibGood}
  /\ win = _update_tasks(SetupUi)
  /\ window = "open"
  /\ stack = << >>
  /\ thread_running = FALSE
  /\ worker = NoWorker
  /\ queue = << >>
  /\ streams = [stdout |-> "terminal", stderr |-> "terminal"]
  /\ contents = [calib |-> InstalledDescriptor, temp |-> NoData]
  /\ manager = ModelManager
  /\ answer = NoAnswer
  /\ started = 0

envVars == <<gpu, trt, contents, manager, answer>>

taskVars == <<thread_running, worker, queue, fs, streams, started>>

\* version_combo.currentTextChanged -> _update_tasks
SelectVersion(v) ==
  /\ Responsive
  /\ win.enabled["version_combo"]
  /\ v \in Range(VersionOrder)
  /\ v # win.version_combo
  /\ win' = _update_tasks([win EXCEPT !.version_combo = v])
  /\ UNCHANGED <<window, stack, taskVars, envVars>>

\* task_combo.currentTextChanged -> _update_models
SelectTask(t) ==
  /\ Responsive
  /\ win.enabled["task_combo"]
  /\ t \in Range(win.task_items)
  /\ t # win.task_combo
  /\ win' = _update_models([win EXCEPT !.task_combo = t])
  /\ UNCHANGED <<window, stack, taskVars, envVars>>

\* model_combo.currentTextChanged -> _update_model_status
SelectModel(m) ==
  /\ Responsive
  /\ win.enabled["model_combo"]
  /\ m \in Range(win.model_items)
  /\ m # win.model_combo
  /\ win' = _update_model_status([win EXCEPT !.model_combo = m])
  /\ UNCHANGED <<window, stack, taskVars, envVars>>

\* btn_pick_calib.clicked; file = None when the picker is dismissed
_select_calibration_data(w, file) ==
  IF file # None
  THEN _update_model_status(
         [w EXCEPT !.calibration_yaml_path = file, !.lbl_calib = file])
  ELSE _update_model_status(
         [w EXCEPT !.calibration_yaml_path = None, !.lbl_calib = None])

SelectCalibration(file) ==
  /\ Responsive
  /\ win.enabled["btn_pick_calib"]
  /\ file \in PickerFiles \cup {None}
  /\ win' = _select_calibration_data(win, file)
  /\ UNCHANGED <<window, stack, taskVars, envVars>>

\* clear_log_btn.clicked -> log_output.clear
ClearLog ==
  /\ Responsive
  /\ win.enabled["clear_log_btn"]
  /\ win.log_output # << >>
  /\ win' = [win EXCEPT !.log_output = << >>]
  /\ UNCHANGED <<window, stack, taskVars, envVars>>

\* a variant that drops the calibration reference when a task starts
TaskStartUiForgetsCalibration(w, line) ==
  [_set_ui_enabled([w EXCEPT !.log_output = << >>, !.progress_bar = "busy",
                             !.calibration_yaml_path = None],
                   FALSE)
     EXCEPT !.log_output = <<line>>]

\* the window part of _download_model / _build_engine, up to the start line
TaskStartUi(w, line) ==
  [_set_ui_enabled([w EXCEPT !.log_output = << >>, !.progress_bar = "busy"],
                   FALSE)
     EXCEPT !.log_output = <<line>>]

\* download_btn.clicked
_download_model ==
  /\ Responsive
  /\ win.enabled["download_btn"]
  /\ started < MaxTasks
  /\ IF win.model_combo = << >>
     THEN UNCHANGED <<win, taskVars>>
     ELSE /\ win' = TaskStartUi(win, Msg("Starting model download"))
          /\ worker' = ModelDownloadWorker(win.model_combo)
          /\ thread_running' = TRUE
          /\ started' = started + 1
          /\ UNCHANGED <<queue, fs, streams>>
  /\ UNCHANGED <<window, stack, envVars>>

\* btn_build_<precision>.clicked
_build_engine(precision) ==
  /\ Responsive
  /\ win.enabled[BuildBtn(precision)]
  /\ started < MaxTasks
  /\ IF win.model_combo = << >>
     THEN UNCHANGED <<win, taskVars>>
     ELSE /\ win' = TaskStartUi(win, Msg("Starting engine build"))
          /\ worker' = EngineExportWorker(
                         win.model_combo, precision, "cuda:0",
                         IF precision = "int8"
                         THEN win.calibration_yaml_path ELSE None)
          /\ thread_running' = TRUE
          /\ started' = started + 1
          /\ UNCHANGED <<queue, fs, streams>>
  /\ UNCHANGED <<window, stack, envVars>>

\* ---------------------------------------------- signals from the worker
Output(text) == [sig |-> "output", text |-> text]

DownloadComplete(success, message) ==
  [sig |-> "download_complete", success |-> success, message |-> message]

Done(success, model_name, precision, message) ==
  [sig |-> "done", success |-> success, model_name |-> model_name,
   precision |-> precision, message |-> message]

IsTerminal(s) == s.sig \in {"download_complete", "done"}

\* worker.output -> _append_log: append, then processEvents().  Nothing
\* follows processEvents() in the slot, so the events it delivers run the
\* same handlers, on the same state, as events delivered after the slot
\* returns: the nested delivery is the next step of the model.
\* a variant that refreshes the model status on every progress line
AppendLogRefreshesStatus(w, text) ==
  _update_model_status([w EXCEPT !.log_output = Append(@, text)])

\* a variant that puts the newest line first
AppendLogPrepends(w, text) == [w EXCEPT !.log_output = <<text>> \o @]

_append_log(w, text) == [w EXCEPT !.log_output = Append(@, text)]

AppendLog ==
  /\ Dispatching
  /\ queue # << >>
  /\ Head(queue).sig = "output"
  /\ win' = _append_log(win, Head(queue).text)
  /\ queue' = Tail(queue)
  /\ UNCHANGED <<window, stack, thread_running, worker, fs, streams, started,
                 envVars>>

\* _common_task_cleanup up to worker_thread.wait(): the thread is running
\* (its event loop ends only on quit()), so quit() and wait() are called and
\* the interactive thread blocks until the worker's run() has returned
CleanupBegin(w) ==
  _set_ui_enabled([w EXCEPT !.progress_bar = "hidden"], TRUE)

\* a variant that logs the outcome message without the marker line
CleanupEndWithoutMarker(w, success, message) ==
  [w EXCEPT !.log_output =
     Append(@, MsgArgs(IF success THEN "OK {}" ELSE "FAILED {}",
                       <<message.fmt>> \o message.args))]

\* _common_task_cleanup after wait(): the marker and the outcome message
CleanupEnd(w, success, message) ==
  [w EXCEPT !.log_output =
     Append(Append(@, Msg("--- Task Finished ---")),
            MsgArgs(IF success THEN "OK {}" ELSE "FAILED {}",
                    <<message.fmt>> \o message.args))]

\* worker.download_complete -> _on_download_complete,
\* worker.done -> _on_engine_built: entry, up to the blocking wait()
OnTaskFinished ==
  /\ Dispatching
  /\ queue # << >>
  /\ IsTerminal(Head(queue))
  /\ win' = CleanupBegin(win)
  /\ queue' = Tail(queue)
  /\ stack' = Append(stack, Frame("cleanup_wait", Head(queue)))
  /\ UNCHANGED <<window, thread_running, worker, fs, streams, started,
                 envVars>>

\* wait() returns; the rest of _common_task_cleanup runs and the handler
\* opens its modal message box (information or critical)
CleanupJoined ==
  /\ Top = "cleanup_wait"
  /\ thread_running => worker.pc = "returned"
  /\ thread_running' = FALSE
  /\ win' = CleanupEnd(win, Last(stack).sig.success, Last(stack).sig.message)
  /\ stack' = Append(Front(stack), Frame("done_box", Last(stack).sig))
  /\ UNCHANGED <<window, worker, queue, fs, streams, started, envVars>>

\* the message box is dismissed; the handler ends with _update_model_status
MessageBoxClosed ==
  /\ window = "open"
  /\ Top = "done_box"
  /\ win' = _update_model_status(win)
  /\ stack' = Front(stack)
  /\ UNCHANGED <<window, taskVars, envVars>>

\* closeEvent
CloseEvent ==
  /\ Responsive
  /\ IF thread_running
     THEN /\ stack' = Append(stack, Frame("close_question", NoSig))
          /\ UNCHANGED window
     ELSE /\ window' = "closed"
          /\ UNCHANGED stack
  /\ UNCHANGED <<win, taskVars, envVars>>

\* QMessageBox.question answered No: event.ignore()
CloseDeclined ==
  /\ window = "open"
  /\ Top = "close_question"
  /\ stack' = Front(stack)
  /\ UNCHANGED <<win, window, taskVars, envVars>>

\* answered Yes: worker_thread.quit(); worker_thread.wait()
CloseConfirmed ==
  /\ window = "open"
  /\ Top = "close_question"
  /\ stack' = Append(Front(stack), Frame("close_wait", NoSig))
  /\ UNCHANGED <<win, window, taskVars, envVars>>

\* a variant in which wait() does not block
CloseAcceptedWithoutWait ==
  /\ window = "open"
  /\ Top = "close_wait"
  /\ thread_running' = FALSE
  /\ window' = "closed"
  /\ stack' = Front(stack)
  /\ UNCHANGED <<win, worker, queue, fs, streams, started, envVars>>

\* wait() returns (at once when the thread has already finished);
\* event.accept()
CloseAccepted ==
  /\ window = "open"
  /\ Top = "close_wait"
  /\ thread_running => worker.pc = "returned"
  /\ thread_running' = FALSE
  /\ window' = "closed"
  /\ stack' = Front(stack)
  /\ UNCHANGED <<win, worker, queue, fs, streams, started, envVars>>

\* --------------------------------------------------- core/worker_threads.py
Running(pc) == thread_running /\ worker.pc = pc

Raise(w, type, msg, handler) ==
  [w EXCEPT !.exc = [type |-> type, msg |-> msg], !.pc = handler]

\* StreamRedirect.write, for the texts written while a stream is redirected:
\* the non-blank ones are emitted
IsBlank(text) == text = ""

\* a variant in which only sys.stdout's redirect is connected
ForwardedFromStdout(writes) ==
  LET Kept(wr) == ~IsBlank(wr.text) /\ wr.stream = "stdout"
      kept == SelectSeq(writes, Kept)
  IN [i \in 1..Len(kept) |-> Output(Msg(kept[i].text))]

Forwarded(writes) ==
  LET NonBlank(wr) == ~IsBlank(wr.text)
      kept == SelectSeq(writes, NonBlank)
  IN [i \in 1..Len(kept) |-> Output(Msg(kept[i].text))]

\* a text the delegate writes: progress on stdout, an error report on
\* stderr, or a blank text on either
DelegateWrite ==
  {[stream |-> "stdout", text |-> t] : t \in {"", "Downloading weights"}}
    \cup {[stream |-> "stderr", text |-> t] : t \in {"", "ERROR reported"}}

\* what one call of the delegate writes: nothing, one text, or progress on
\* stdout followed by an error report on stderr
DelegateWrites ==
  {<< >>} \cup {<<wr>> : wr \in DelegateWrite}
    \cup {<<[stream |-> "stdout", text |-> "Downloading weights"],
            [stream |-> "stderr", text |-> "ERROR reported"]>>}

\* the messages of the exceptions the delegate may raise
DelegateErrors == {"Connection refused", "invalid weights file"}

DownloadPath(w) == WeightsPath(w.model_name \o <<".pt">>)

\* weights_dir.mkdir(parents=True, exist_ok=True) cannot fail on a directory
\* that exists, and a directory that holds a file exists
DirExists(dir) == \E f \in fs : f.dir = dir

\* run(), lines 45-57: redirect the streams, create the directory
DownloadBegin ==
  /\ Running("d_begin")
  /\ streams' = [stdout |-> "redirect", stderr |-> "redirect"]
  /\ \E mkdir_ok \in {TRUE} \cup {DirExists(DownloadPath(worker).dir)} :
       IF mkdir_ok
       THEN /\ worker' = [worker EXCEPT !.old_stdout = streams.stdout,
                                        !.old_stderr = streams.stderr,
                                        !.pc = "d_delegate"]
            /\ queue' = Append(queue, Output(Msg("Starting to download model")))
       ELSE /\ worker' = Raise([worker EXCEPT !.old_stdout = streams.stdout,
                                              !.old_stderr = streams.stderr],
                               "OSError", "cannot create weights_dir",
                               "d_except")
            /\ UNCHANGED queue
  /\ UNCHANGED <<win, window, stack, thread_running, fs, started, envVars>>

\* line 59, YOLO(str(model_path)): the external retrieval mechanism.  It may
\* write to the redirected streams, leave the weight file on disk or not,
\* and return or raise, in any combination.
DownloadDelegate ==
  /\ Running("d_delegate")
  /\ \E writes \in DelegateWrites, stored \in BOOLEAN,
        raised \in DelegateErrors \cup {"none"} :
       /\ fs' = IF stored THEN fs \cup {DownloadPath(worker)} ELSE fs
       /\ queue' = queue \o Forwarded(writes)
       /\ worker' = IF raised # "none"
                    THEN Raise([worker EXCEPT !.written = writes],
                               "Exception", raised, "d_except")
                    ELSE [worker EXCEPT !.written = writes, !.pc = "d_check"]
  /\ UNCHANGED <<win, window, stack, thread_running, streams, started, envVars>>

\* a variant that looks for the identifier without the ".pt" suffix
DownloadOutcomeChecksIdentifier(w) ==
  IF WeightsPath(w.model_name) \in fs
  THEN <<Output(Msg("Download complete and stored")),
         DownloadComplete(TRUE, Msg("Download successful."))>>
  ELSE <<Output(Msg("Download failed. Model file not found.")),
         DownloadComplete(FALSE, Msg("Download failed."))>>

\* a variant that does not look for the weight file
DownloadOutcomeTrustsDelegate(w) ==
  <<Output(Msg("Download complete and stored")),
    DownloadComplete(TRUE, Msg("Download successful."))>>

\* lines 61-68
DownloadOutcome(w) ==
  IF DownloadPath(w) \in fs
  THEN <<Output(Msg("Download complete and stored")),
         DownloadComplete(TRUE, Msg("Download successful."))>>
  ELSE <<Output(Msg("Download failed. Model file not found.")),
         DownloadComplete(FALSE, Msg("Download failed."))>>

DownloadCheck ==
  /\ Running("d_check")
  /\ queue' = queue \o DownloadOutcome(worker)
  /\ worker' = [worker EXCEPT !.pc = "d_finally"]
  /\ UNCHANGED <<win, window, stack, thread_running, fs, streams, started,
                 envVars>>

\* a variant that reports a fixed text instead of the exception's message
DownloadExceptFixedMessage(w) ==
  <<Output(MsgArgs("An error occurred during download: {}", <<w.exc.msg>>)),
    DownloadComplete(FALSE, Msg("Download failed."))>>

\* lines 69-71
DownloadExceptOutcome(w) ==
  <<Output(MsgArgs("An error occurred during download: {}", <<w.exc.msg>>)),
    DownloadComplete(FALSE, Msg(w.exc.msg))>>

DownloadExcept ==
  /\ Running("d_except")
  /\ queue' = queue \o DownloadExceptOutcome(worker)
  /\ worker' = [worker EXCEPT !.pc = "d_finally"]
  /\ UNCHANGED <<win, window, stack, thread_running, fs, streams, started,
                 envVars>>

\* run() has returned: its locals are gone, and nothing reads the worker
\* object's fields again
Returned(w) == [NoWorker EXCEPT !.kind = w.kind, !.pc = "returned"]

\* lines 72-74
DownloadFinally ==
  /\ Running("d_finally")
  /\ streams' = [stdout |-> worker.old_stdout, stderr |-> worker.old_stderr]
  /\ worker' = Returned(worker)
  /\ UNCHANGED <<win, window, stack, thread_running, queue, fs, started,
                 envVars>>

\* EngineExportWorker.run
ModelPath(w) == WeightsPath(w.model_name \o <<".pt">>)

\* Path(model_path.parent) / f"{model_path.stem}.engine"
GenericEnginePath(w) == WeightsPath(Stem(ModelPath(w).name) \o <<".engine">>)

\* a variant that tags every engine as fp16
NewEnginePathAlwaysFp16(w) ==
  WeightsPath(Stem(GenericEnginePath(w).name) \o <<"-", "fp16", ".engine">>)

\* generic_engine_path.with_name(f"{stem}-{precision}.engine")
NewEnginePath(w) ==
  WeightsPath(Stem(GenericEnginePath(w).name)
              \o <<"-", w.precision, ".engine">>)

BaseCmd(w) ==
  [program |-> <<"yolo", "export">>, model |-> ModelPath(w),
   format |-> "engine", device |-> w.device, flags |-> {}, data |-> None]

\* line 103
WeightsMissing(w) == ModelPath(w) \notin fs

\* a variant that checks the reference is set, not that the file exists
CalibrationUnset(w) == w.calibration_yaml_path = None

\* lines 123-126
CalibrationInvalid(w) ==
  \/ w.calibration_yaml_path = None
  \/ w.calibration_yaml_path \notin fs

\* lines 100-121: the weight file must exist; the command; fp16 adds "half"
ExportBegin ==
  /\ Running("e_begin")
  /\ IF WeightsMissing(worker)
     THEN /\ worker' = Raise(worker, "FileNotFoundError",
                             "Model file not found. Please download the model first.",
                             "e_except")
          /\ UNCHANGED queue
     ELSE /\ queue' = Append(queue,
                             Output(Msg("Starting to build TensorRT engine")))
          /\ worker' =
               [worker EXCEPT
                  !.cmd = IF worker.precision = "fp16"
                          THEN [BaseCmd(worker) EXCEPT !.flags = {"half"}]
                          ELSE BaseCmd(worker),
                  !.pc = IF worker.precision = "int8" THEN "e_calib"
                         ELSE "e_popen"]
  /\ UNCHANGED <<win, window, stack, thread_running, fs, streams, started,
                 envVars>>

\* self.calibration_yaml_path.parent, as the components of an absolute path
Parent(p) == <<p.dir>>

\* Path.resolve() of an absolute path: ".." removes the component before it
RECURSIVE Normalized(_)
Normalized(parts) ==
  IF parts = << >> THEN << >>
  ELSE IF Last(parts) = ".."
       THEN LET before == Normalized(Front(parts))
            IN IF before = << >> THEN << >> ELSE Front(before)
       ELSE Append(Normalized(Front(parts)), Last(parts))

\* (yaml_dir / value).resolve(): joining an absolute value gives the value
Resolved(yaml_dir, value) ==
  Abs(Normalized(IF value.abs THEN value.parts ELSE yaml_dir \o value.parts))

\* a variant that joins and resolves "train" only
ResolveTrainOnly(data, yaml_dir) ==
  [data EXCEPT
     !.train = IF @.present /\ ~@.abs THEN Resolved(yaml_dir, @) ELSE @]

\* lines 135-141: "path" is resolved when present, "train" and "val" when
\* present and not absolute
ResolveDescriptor(data, yaml_dir) ==
  [data EXCEPT
     !.path = IF @.present THEN Resolved(yaml_dir, @) ELSE @,
     !.train = IF @.present /\ ~@.abs THEN Resolved(yaml_dir, @) ELSE @,
     !.val = IF @.present /\ ~@.abs THEN Resolved(yaml_dir, @) ELSE @]

\* lines 122-150, int8 only: the calibration file must be set and exist; it
\* is loaded, resolved and written to a temporary copy.  Loading or resolving
\* may raise before the copy is created; yaml.dump may raise after
\* NamedTemporaryFile has created it and before temp_yaml_file is assigned.
ExportCalibration ==
  /\ Running("e_calib")
  /\ IF CalibrationInvalid(worker)
     THEN /\ worker' = Raise(worker, "ValueError",
               "INT8 calibration requires a valid calibration YAML file to be selected.",
               "e_except")
          /\ UNCHANGED <<fs, contents>>
     ELSE \E how \in {"ok", "load_raises", "dump_raises"} :
            CASE how = "load_raises" ->
                   /\ worker' = Raise(worker, "Exception",
                                      "cannot read the calibration YAML",
                                      "e_except")
                   /\ UNCHANGED <<fs, contents>>
              [] how = "dump_raises" ->
                   /\ fs' = fs \cup {TempYaml}
                   /\ contents' = [contents EXCEPT !.temp = NoData]
                   /\ worker' = Raise(worker, "Exception",
                                      "cannot write the temporary YAML",
                                      "e_except")
              [] how = "ok" ->
                   /\ fs' = fs \cup {TempYaml}
                   /\ contents' =
                        [contents EXCEPT
                           !.temp = ResolveDescriptor(
                                      contents.calib,
                                      Parent(worker.calibration_yaml_path))]
                   /\ worker' =
                        [worker EXCEPT
                           !.temp_yaml_file = TempYaml,
                           !.cmd = [@ EXCEPT !.flags = @ \cup {"int8"},
                                             !.data = TempYaml],
                           !.pc = "e_popen"]
  /\ UNCHANGED <<win, window, stack, thread_running, queue, streams, started,
                 gpu, trt, manager, answer>>

\* what one run of the compiler prints: nothing, or one line; each line is
\* emitted, stripped
ProcLines == {<< >>, <<Output(Msg("compiler output"))>>}

\* lines 152-160: the external compiler.  Popen may fail to launch it; once
\* launched it prints lines, writes <stem>.engine or not, and exits with
\* some code, in any combination.
ExportPopen ==
  /\ Running("e_popen")
  /\ \/ /\ worker' = Raise(worker, "FileNotFoundError",
                           "No such file or directory: 'yolo'", "e_except")
        /\ UNCHANGED <<queue, fs>>
     \/ \E lines \in ProcLines, produced \in BOOLEAN, code \in ExitCodes :
          /\ queue' = queue \o lines
          /\ fs' = IF produced THEN fs \cup {GenericEnginePath(worker)}
                   ELSE fs
          /\ worker' = [worker EXCEPT !.returncode = {code},
                                      !.pc = "e_result"]
  /\ UNCHANGED <<win, window, stack, thread_running, streams, started,
                 envVars>>

\* a variant that trusts exit code 0 without looking for the engine file
ExportOutcomeTrustsExitCode(w, returncode) ==
  IF returncode = 0
  THEN <<Output(Msg("Engine build successful. Renamed.")),
         Done(TRUE, w.model_name, w.precision,
              Msg("Engine build successful."))>>
  ELSE <<Output(MsgArgs("Engine build failed with exit code {}.",
                        <<ToString(returncode)>>)),
         Done(FALSE, w.model_name, w.precision, Msg("Engine build failed."))>>

\* lines 162-194, the signals of each branch
ExportOutcome(w, returncode) ==
  IF returncode = 0
  THEN IF GenericEnginePath(w) \in fs
       THEN <<Output(Msg("Engine build successful. Renamed.")),
              Done(TRUE, w.model_name, w.precision,
                   Msg("Engine build successful."))>>
       ELSE <<Output(Msg("Engine build failed. Engine file not found.")),
              Done(FALSE, w.model_name, w.precision,
                   Msg("Failed to create TensorRT engine."))>>
  ELSE <<Output(MsgArgs("Engine build failed with exit code {}.",
                        <<ToString(returncode)>>)),
         Done(FALSE, w.model_name, w.precision, Msg("Engine build failed."))>>

\* a variant that copies instead of moving
RenameKeepsSource(files, src, dst) == files \cup {dst}

\* os.rename(generic_engine_path, new_engine_path)
Rename(files, src, dst) == (files \ {src}) \cup {dst}

\* lines 162-194; os.rename may raise, before anything is emitted
ExportResult ==
  /\ Running("e_result")
  /\ \E returncode \in worker.returncode :
       \/ /\ returncode = 0
          /\ GenericEnginePath(worker) \in fs
          /\ worker' = Raise(worker, "OSError", "cannot rename the engine",
                             "e_except")
          /\ UNCHANGED <<queue, fs>>
       \/ /\ fs' = IF returncode = 0 /\ GenericEnginePath(worker) \in fs
                   THEN Rename(fs, GenericEnginePath(worker),
                               NewEnginePath(worker))
                   ELSE fs
          /\ queue' = queue \o ExportOutcome(worker, returncode)
          /\ worker' = [worker EXCEPT !.pc = "e_finally"]
  /\ UNCHANGED <<win, window, stack, thread_running, streams, started,
                 envVars>>

\* a variant of the handlers that logs the error and reports nothing
ExportExceptLogsOnly(w) ==
  <<Output(MsgArgs("Error: {}", <<w.exc.msg>>))>>

\* lines 196-201
ExportExceptOutcome(w) ==
  <<Output(MsgArgs(IF w.exc.type \in {"ValueError", "FileNotFoundError",
                                      "SyntaxError"}
                   THEN "Error: {}" ELSE "An unexpected error occurred: {}",
                   <<w.exc.msg>>)),
    Done(FALSE, w.model_name, w.precision, Msg(w.exc.msg))>>

ExportExcept ==
  /\ Running("e_except")
  /\ queue' = queue \o ExportExceptOutcome(worker)
  /\ worker' = [worker EXCEPT !.pc = "e_finally"]
  /\ UNCHANGED <<win, window, stack, thread_running, fs, streams, started,
                 envVars>>

\* lines 202-204
ExportFinally ==
  /\ Running("e_finally")
  /\ fs' = IF worker.temp_yaml_file # None /\ worker.temp_yaml_file \in fs
           THEN fs \ {worker.temp_yaml_file} ELSE fs
  /\ contents' = IF worker.temp_yaml_file # None
                 THEN [contents EXCEPT !.temp = NoData] ELSE contents
  /\ worker' = Returned(worker)
  /\ UNCHANGED <<win, window, stack, thread_running, queue, streams, started,
                 gpu, trt, manager, answer>>

\* ------------------------------------------------------------ specification
\* the steps of the two run() slots
WorkerNext ==
  \/ DownloadBegin
  \/ DownloadDelegate
  \/ DownloadCheck
  \/ DownloadExcept
  \/ DownloadFinally
  \/ ExportBegin
  \/ ExportCalibration
  \/ ExportPopen
  \/ ExportResult
  \/ ExportExcept
  \/ ExportFinally

Next ==
  \/ \E v \in Range(VersionOrder) : SelectVersion(v)
  \/ \E t \in Range(TaskOrder) : SelectTask(t)
  \/ \E m \in AllModels : SelectModel(m)
  \/ \E file \in PickerFiles \cup {None} : SelectCalibration(file)
  \/ ClearLog
  \/ _download_model
  \/ \E precision \in Precisions : _build_engine(precision)
  \/ AppendLog
  \/ OnTaskFinished
  \/ CleanupJoined
  \/ MessageBoxClosed
  \/ CloseEvent
  \/ CloseDeclined
  \/ CloseConfirmed
  \/ CloseAccepted
  \/ WorkerNext

\* the whole program: the window, the user and the worker thread
Spec == Init /\ [][Next]_vars

\* One run() of a worker, invoked on any input: any catalog model, any
\* precision, any calibration reference, and any combination of the
\* model's weight file and engines already on disk.  The signals it emits
\* stay in the queue, in emission order.
EngineFiles(m) ==
  {WeightsPath(m \o <<".engine">>)}
    \cup {WeightsPath(m \o <<"-", p, ".engine">>) : p \in Precisions}

\* the identifiers run() may be given: those of the catalog above, and one
\* that models.json lists with the ".pt" ending
WorkerModels == AllModels \cup {<<"yolov8n", ".pt">>}

WorkerInputs ==
  {ModelDownloadWorker(m) : m \in WorkerModels}
    \cup {EngineExportWorker(m, p, "cuda:0", c) :
            m \in WorkerModels, p \in Precisions,
            c \in CalibChoices \cup {None}}

WorkerInit ==
  /\ gpu = TRUE
  /\ trt = TRUE
  /\ worker \in WorkerInputs
  /\ \E files \in SUBSET ({WeightsPath(worker.model_name \o <<".pt">>),
                             model_file_path(worker.model_name)}
                            \cup EngineFiles(worker.model_name)) :
       fs = files \cup {CalibGood}
  /\ win = _update_tasks(SetupUi)
  /\ window = "open"
  /\ stack = << >>
  /\ thread_running = TRUE
  /\ queue = << >>
  /\ streams = [stdout |-> "terminal", stderr |-> "terminal"]
  /\ \E d \in Descriptors : contents = [calib |-> d, temp |-> NoData]
  /\ manager = ModelManager
  /\ answer = NoAnswer
  /\ started = 1

WorkerSpec == WorkerInit /\ [][WorkerNext]_vars

\* The selectors alone, on any catalog: the window is constructed on a
\* catalog and the user changes the version, the category and the model.
ClassifyInit ==
  /\ gpu = TRUE
  /\ trt = TRUE
  /\ \E present \in InitialWeights :
       fs = {WeightsPath(m \o <<".pt">>) : m \in present} \cup {CalibGood}
  /\ \E catalog \in Catalogs :
       win = _update_tasks([SetupUi EXCEPT !.model_data = catalog])
  /\ window = "open"
  /\ stack = << >>
  /\ thread_running = FALSE
  /\ worker = NoWorker
  /\ queue = << >>
  /\ streams = [stdout |-> "terminal", stderr |-> "terminal"]
  /\ contents = [calib |-> InstalledDescriptor, temp |-> NoData]
  /\ manager = ModelManager
  /\ answer = NoAnswer
  /\ started = 0

\* an identifier that carries two task suffixes
CompoundIdentifiers == {<<"yolov8n", "-seg", "-pose">>}

ClassifyNext ==
  \/ \E v \in Range(VersionOrder) : SelectVersion(v)
  \/ \E t \in Range(TaskOrder) : SelectTask(t)
  \/ \E m \in Identifiers \cup CompoundIdentifiers : SelectModel(m)

ClassifySpec == ClassifyInit /\ [][ClassifyNext]_vars

\* The selectors on the catalogs whose first version may also list an
\* identifier with two task suffixes.
CompoundLists ==
  UNION {{l \in [1..n -> Identifiers \cup CompoundIdentifiers] :
            \A i, j \in 1..n : i # j => l[i] # l[j]} : n \in 0..MaxCatalog}

CompoundCatalogs ==
  {[v \in Range(VersionOrder) |->
      IF v = "YOLOv8" THEN l
      ELSE << <<"yolov8n", "-cls">>, <<"yolov8n", "-obb">>,
              <<"yolov8n", "-pose">>, <<"yolov8n", "-seg">>,
              <<"yolov8n">> >>] : l \in CompoundLists}

CompoundInit ==
  /\ gpu = TRUE
  /\ trt = TRUE
  /\ fs = {CalibGood}
  /\ \E catalog \in CompoundCatalogs :
       win = _update_tasks([SetupUi EXCEPT !.model_data = catalog])
  /\ window = "open"
  /\ stack = << >>
  /\ thread_running = FALSE
  /\ worker = NoWorker
  /\ queue = << >>
  /\ streams = [stdout |-> "terminal", stderr |-> "terminal"]
  /\ contents = [calib |-> InstalledDescriptor, temp |-> NoData]
  /\ manager = ModelManager
  /\ answer = NoAnswer
  /\ started = 0

CompoundSpec == CompoundInit /\ [][ClassifyNext]_vars

\* The queries of the ModelManager alone: the window is idle, files of the
\* weights directory come and go, and the two queries are made in any order,
\* any number of times, for an identifier with or without the ".pt" ending.
QueryModels == {<<"yolov8n">>, <<"yolov8n", "-seg">>, <<"yolov8n", ".pt">>}

\* the weight files and engines the weights directory may hold: for each
\* identifier, <identifier>.pt and the fp16 and int8 engines named after it
QueryFiles ==
  {WeightsPath(m \o <<".pt">>) : m \in QueryModels}
    \cup {WeightsPath(m \o <<"-", p, ".engine">>) :
            m \in QueryModels, p \in {"fp16", "int8"}}

\* ModelManager.is_model_downloaded(version, model), called
IsModelDownloaded(m) ==
  /\ answer' = [call |-> "is_model_downloaded", model |-> m,
                precision |-> "", value |-> is_model_downloaded(m)]
  /\ UNCHANGED <<win, window, stack, taskVars, gpu, trt, contents, manager>>

\* ModelManager.is_engine_built(model, precision), called
IsEngineBuilt(m, p) ==
  /\ answer' = [call |-> "is_engine_built", model |-> m,
                precision |-> p, value |-> is_engine_built(m, p)]
  /\ UNCHANGED <<win, window, stack, taskVars, gpu, trt, contents, manager>>

\* a file appears in the weights directory (a download, a build, a copy)
FileCreated(f) ==
  /\ f \notin fs
  /\ fs' = fs \cup {f}
  /\ UNCHANGED <<win, window, stack, thread_running, worker, queue, streams,
                 started, envVars>>

\* a file of the weights directory is deleted
FileRemoved(f) ==
  /\ f \in fs
  /\ f.dir = "weights"
  /\ fs' = fs \ {f}
  /\ UNCHANGED <<win, window, stack, thread_running, worker, queue, streams,
                 started, envVars>>

QueryInit ==
  /\ gpu = TRUE
  /\ trt = TRUE
  /\ fs = {CalibGood}
  /\ win = _update_tasks(SetupUi)
  /\ window = "open"
  /\ stack = << >>
  /\ thread_running = FALSE
  /\ worker = NoWorker
  /\ queue = << >>
  /\ streams = [stdout |-> "terminal", stderr |-> "terminal"]
  /\ contents = [calib |-> InstalledDescriptor, temp |-> NoData]
  /\ manager = ModelManager
  /\ answer = NoAnswer
  /\ started = 0

QueryNext ==
  \/ \E m \in QueryModels : IsModelDownloaded(m)
  \/ \E m \in QueryModels, p \in Precisions : IsEngineBuilt(m, p)
  \/ \E f \in QueryFiles : FileCreated(f)
  \/ \E f \in QueryFiles : FileRemoved(f)

QuerySpec == QueryInit /\ [][QueryNext]_vars

\* ------------------------------------------------------------------ phases
\* a completion handler (_on_download_complete, _on_engine_built) has been
\* entered and has not returned
InHandler ==
  \E i \in 1..Len(stack) : stack[i].kind \in {"cleanup_wait", "done_box"}

\* a task has been started and its terminal outcome is not handled yet
TaskInFlight == thread_running /\ ~InHandler

\* a worker was started whose terminal outcome has not been handled to the end
TaskOutstanding == thread_running \/ InHandler

\* no task in flight and none being completed
Idle == window = "open" /\ ~TaskOutstanding

ModelSelected == win.model_combo # << >>

TaskControls == {"version_combo", "task_combo", "model_combo", "download_btn",
                 "btn_build_fp32", "btn_build_fp16", "btn_build_int8"}

\* ------------------------------------------------------------------ claims

\* C1: at most one background task is in flight: a download or build trigger
\* starts a worker only when no earlier worker is still running or still
\* having its terminal outcome handled.
C1_SingleTaskInFlight ==
  [][started' # started => ~TaskOutstanding]_vars

\* C1 witness: a second worker is in flight, started after the first one's
\* outcome was handled.
C1_Witness == started = 2 /\ TaskInFlight /\ worker.pc # "returned"

\* The terminal signals among those queued.  Under WorkerSpec nothing
\* consumes the queue, so these are all the worker has emitted.
Terminals(sigs) == SelectSeq(sigs, IsTerminal)

HasOutcome == Terminals(queue) # << >>

Outcome == Last(Terminals(queue))

AfterOutcome == worker.pc \in {"d_finally", "e_finally", "returned"}

\* C2: a worker's run() emits its terminal outcome exactly once on every
\* path: none before the branch that reports, one from then on, and it is
\* the last signal the worker emits.
C2_OutcomeExactlyOnce ==
  /\ Len(Terminals(queue)) <= 1
  /\ AfterOutcome <=> Len(Terminals(queue)) = 1
  /\ HasOutcome => IsTerminal(Last(queue))

\* C2 witness: the compiler exited 0 and left the engine, os.rename raised,
\* and the task has reported once.
C2_Witness ==
  /\ worker.pc = "e_finally"
  /\ worker.exc.type = "OSError"
  /\ 0 \in worker.returncode
  /\ Len(Terminals(queue)) = 1

\* C3: while a task is in flight the three selectors and the download and
\* build buttons are disabled, whatever progress lines have been appended.
C3_ControlsDisabledInFlight ==
  TaskInFlight => \A c \in TaskControls : ~win.enabled[c]

\* C3 witness: a task is in flight, a progress line of its worker has been
\* appended to the log by _append_log and more signals are queued.
C3_Witness ==
  /\ TaskInFlight
  /\ Len(win.log_output) >= 2
  /\ queue # << >>

\* C4, the enablement: with a model selected and no task in flight the int8
\* build button is enabled iff the weights are on disk, the GPU is available,
\* TensorRT is installed and a calibration reference is set.
C4_Int8Enablement ==
  (Idle /\ ModelSelected) =>
    (win.enabled["btn_build_int8"] <=>
       /\ is_model_downloaded(win.model_combo)
       /\ gpu
       /\ trt
       /\ win.calibration_yaml_path # None)

\* C4, the flip: setting the calibration reference from unset to set while
\* the other three conditions hold turns the int8 button from disabled to
\* enabled and changes no other control's enablement and no selection.
C4_CalibrationFlip ==
  ( /\ Idle
    /\ ModelSelected
    /\ is_model_downloaded(win.model_combo) /\ gpu /\ trt
    /\ win.calibration_yaml_path = None
    /\ win'.calibration_yaml_path # None )
  => /\ ~win.enabled["btn_build_int8"]
     /\ win'.enabled["btn_build_int8"]
     /\ \A c \in Controls \ {"btn_build_int8"} :
          win'.enabled[c] = win.enabled[c]
     /\ win'.version_combo = win.version_combo
     /\ win'.task_combo = win.task_combo
     /\ win'.model_combo = win.model_combo
     /\ win'.task_items = win.task_items
     /\ win'.model_items = win.model_items

\* C4: the int8 enablement rule holds in every reachable state and every
\* step that sets the calibration reference is such a flip.
C4_Int8AndCalibration ==
  []C4_Int8Enablement /\ [][C4_CalibrationFlip]_vars

\* C4 witness: before any task, the calibration reference has been set by the
\* picker with the other conditions met, and the int8 button is enabled.
C4_Witness ==
  /\ Idle
  /\ started = 0
  /\ ModelSelected
  /\ win.calibration_yaml_path # None
  /\ win.enabled["btn_build_int8"]

\* C5: with a model selected and no task in flight the fp32 and fp16 build
\* buttons are each enabled iff the weights are on disk, the GPU is available
\* and TensorRT is installed, whatever the calibration reference is.
C5_Fp32Fp16Enablement ==
  (Idle /\ ModelSelected) =>
    \A p \in {"fp32", "fp16"} :
      win.enabled[BuildBtn(p)] <=>
        (is_model_downloaded(win.model_combo) /\ gpu /\ trt)

\* C5 witness: a model whose weights were not on disk at startup has been
\* downloaded, the task is over, and both buttons are enabled although no
\* calibration reference is set.
C5_Witness ==
  /\ Idle
  /\ win.model_combo = <<"yolov8s">>
  /\ win.calibration_yaml_path = None
  /\ win.enabled["btn_build_fp32"]
  /\ win.enabled["btn_build_fp16"]

\* the external compiler has been launched and has exited
CompilerRan == worker.returncode # {}

ExportActive == worker.kind = "export" /\ worker.pc \notin {"none", "returned"}

\* C6: a compile task whose weight file is absent, or an int8 compile task
\* whose calibration reference is unset or names a file that does not
\* exist, never reaches the launch of the external compiler and ends in a
\* failure outcome.
C6_CompilePreconditions ==
  ( /\ ExportActive
    /\ \/ ModelPath(worker) \notin fs
       \/ /\ worker.precision = "int8"
          /\ \/ worker.calibration_yaml_path = None
             \/ worker.calibration_yaml_path \notin fs )
  => /\ worker.pc \notin {"e_popen", "e_result"}
     /\ ~CompilerRan
     /\ worker.pc = "e_finally" => (HasOutcome /\ ~Outcome.success)

\* C6 witness: an int8 task whose weights are on disk and whose calibration
\* file does not exist has reported failure.
C6_Witness ==
  /\ worker.pc = "e_finally"
  /\ worker.precision = "int8"
  /\ worker.calibration_yaml_path = CalibGone
  /\ ModelPath(worker) \in fs
  /\ HasOutcome
  /\ ~Outcome.success

\* a step of run() that leaves the branch on the compiler's exit code
ResultStep == worker.pc = "e_result" /\ worker'.pc # "e_result"

Renamed ==
  /\ GenericEnginePath(worker) \notin fs'
  /\ NewEnginePath(worker) \in fs'

ReportsAfterStep(success) ==
  /\ Terminals(queue') # << >>
  /\ Last(Terminals(queue')).success = success

\* C7 as stated: exit code 0 with <stem>.engine present always ends in the
\* rename and a success outcome; a non-zero exit code ends in a failure
\* outcome and no rename.
C7_AsStated ==
  [][ResultStep =>
        IF 0 \in worker.returncode
        THEN GenericEnginePath(worker) \in fs
               => (Renamed /\ ReportsAfterStep(TRUE))
        ELSE fs' = fs /\ ReportsAfterStep(FALSE)]_vars

\* C7 amended: exit code 0 with <stem>.engine present ends in the rename and
\* a success outcome unless os.rename itself raises; then no file changes,
\* nothing is reported by that step and the task ends in a failure outcome.
\* A non-zero exit code ends in a failure outcome and no rename.
C7_RenameStep ==
  ResultStep =>
    IF 0 \in worker.returncode
    THEN GenericEnginePath(worker) \in fs
           => \/ Renamed /\ ReportsAfterStep(TRUE)
              \/ /\ worker'.pc = "e_except"
                 /\ worker'.exc.type = "OSError"
                 /\ fs' = fs
                 /\ queue' = queue
    ELSE fs' = fs /\ ReportsAfterStep(FALSE)

C7_RenameFailureReported ==
  (worker.pc = "e_finally" /\ worker.exc.type = "OSError")
    => /\ HasOutcome
       /\ ~Outcome.success
       /\ GenericEnginePath(worker) \in fs

C7_Rename == []C7_RenameFailureReported /\ [][C7_RenameStep]_vars

\* C7 witness: the compiler exited 0, the generic engine was renamed to the
\* precision-tagged one and success was reported.
C7_Witness ==
  /\ worker.pc = "e_finally"
  /\ 0 \in worker.returncode
  /\ GenericEnginePath(worker) \notin fs
  /\ NewEnginePath(worker) \in fs
  /\ HasOutcome
  /\ Outcome.success

\* C8, the step: exit code 0 with no <stem>.engine in the weights directory
\* is reported as the failure "Failed to create TensorRT engine.".
C8_MissingArtifactStep ==
  (ResultStep /\ 0 \in worker.returncode
     /\ GenericEnginePath(worker) \notin fs)
  => /\ ReportsAfterStep(FALSE)
     /\ Last(Terminals(queue')).message = Msg("Failed to create TensorRT engine.")
     /\ fs' = fs

\* C8, the consequence: a compile success outcome is emitted only when the
\* exit code was 0 and the precision-tagged engine exists.
C8_SuccessNeedsArtifact ==
  (worker.pc = "e_finally" /\ HasOutcome /\ Outcome.success)
    => /\ worker.returncode = {0}
       /\ NewEnginePath(worker) \in fs

C8_ArtifactNotProduced ==
  []C8_SuccessNeedsArtifact /\ [][C8_MissingArtifactStep]_vars

\* C8 witness: the compiler exited 0, no engine file was found and the task
\* reported the failure.
C8_Witness ==
  /\ worker.pc = "e_finally"
  /\ worker.returncode = {0}
  /\ worker.exc.type = "none"
  /\ HasOutcome
  /\ ~Outcome.success
  /\ NewEnginePath(worker) \notin fs

\* C9 as stated: after a non-zero exit code the outcome is a failure and its
\* message carries the exit code.
C9_ExitCodeInOutcomeMessage ==
  \A code \in ExitCodes \ {0} :
    (worker.pc = "e_finally" /\ worker.returncode = {code})
      => /\ HasOutcome
         /\ ~Outcome.success
         /\ ToString(code) \in Range(Outcome.message.args)

\* C10: the download task reports success iff the delegate call returned and
\* the weight file is on disk then, whatever the delegate wrote to stderr.
C10_DownloadSuccessIffFile ==
  worker.pc = "d_finally" =>
    /\ HasOutcome
    /\ Outcome.success <=>
         (worker.exc.type = "none" /\ DownloadPath(worker) \in fs)

\* C10 witness: the delegate reported an error on stderr and returned, the
\* weight file is on disk and the task reported success.
C10_Witness ==
  /\ worker.pc = "d_finally"
  /\ Output(Msg("ERROR reported")) \in Range(queue)
  /\ DownloadPath(worker) \in fs
  /\ HasOutcome
  /\ Outcome.success

\* C11: when the delegate of a download task raises, the outcome is a
\* failure whose message is the message of the exception raised.
C11_DelegateExceptionMessage ==
  \A err \in DelegateErrors :
    ( /\ worker.pc = "d_finally"
      /\ worker.exc = [type |-> "Exception", msg |-> err] )
    => /\ HasOutcome
       /\ ~Outcome.success
       /\ Outcome.message = Msg(err)

\* C11 witness: the delegate stored the weight file and then raised; the
\* task reported the failure with that exception's message.
C11_Witness ==
  /\ worker.pc = "d_finally"
  /\ worker.exc.msg = "invalid weights file"
  /\ DownloadPath(worker) \in fs
  /\ HasOutcome
  /\ Outcome.message = Msg("invalid weights file")

\* the weight file of the running download task is on disk and the task has
\* not reported yet; before the delegate is called nothing has touched the
\* disk, so there the file was on disk when the task was invoked
DownloadFilePresent ==
  /\ worker.kind = "download"
  /\ worker.pc \in {"d_begin", "d_delegate", "d_check"}
  /\ DownloadPath(worker) \in fs

\* C12 as stated: a download task whose weight file is on disk when it is
\* invoked ends in a success outcome and changes nothing on disk; and when
\* the delegate has left the file on disk, the file is there afterwards and
\* the task reports success.
C12_AsStated ==
  [][DownloadFilePresent =>
       /\ fs' = fs
       /\ worker'.pc # "d_except"
       /\ worker'.pc = "d_finally" => ReportsAfterStep(TRUE)]_vars

\* C12 amended: as stated, provided the delegate call returns; when the
\* delegate raises, the disk is unchanged all the same and the outcome is a
\* failure.
C12_DownloadFrameStep ==
  DownloadFilePresent =>
    /\ fs' = fs
    /\ worker'.pc = "d_except" => worker.pc = "d_delegate"
    /\ worker'.pc = "d_finally" => ReportsAfterStep(TRUE)

C12_RaisedWithFilePresent ==
  ( /\ worker.pc = "d_finally"
    /\ worker.exc.type # "none" )
  => (HasOutcome /\ ~Outcome.success)

C12_DownloadFrame ==
  []C12_RaisedWithFilePresent /\ [][C12_DownloadFrameStep]_vars

\* C12 witness: the weight file is on disk next to an engine built from it,
\* the delegate returned and the task reported success.
C12_Witness ==
  /\ worker.kind = "download"
  /\ worker.pc = "d_finally"
  /\ worker.exc.type = "none"
  /\ DownloadPath(worker) \in fs
  /\ get_engine_path(worker.model_name, "fp16") \in fs
  /\ HasOutcome
  /\ Outcome.success

\* C13 as stated: once an int8 compile task has terminated, no temporary
\* calibration copy is left on disk.
C13_TempCopyRemoved ==
  (worker.kind = "export" /\ worker.pc = "returned") => TempYaml \notin fs

\* the streams the process starts with
SystemStreams == [stdout |-> "terminal", stderr |-> "terminal"]

NonBlankWritten(w) == {i \in DOMAIN w.written : w.written[i].text # ""}

\* the step of run() that calls the delegate
DelegateStep == worker.pc = "d_delegate" /\ worker'.pc # "d_delegate"

\* C15, the streams: they are redirected from the start of run() until its
\* finally block, and once run() has returned, on any path, they are the
\* streams the process had before.
C15_StreamsRestored ==
  worker.kind = "download" =>
    /\ worker.pc = "returned" => streams = SystemStreams
    /\ worker.pc \in {"d_delegate", "d_check", "d_except", "d_finally"}
         => streams = [stdout |-> "redirect", stderr |-> "redirect"]

\* C15, the forwarding: the delegate call adds to the queue one progress
\* notification for each non-blank text it wrote to stdout or stderr, in
\* the order written, and nothing else.
C15_WritesForwarded ==
  DelegateStep =>
    LET w == worker'
        added == SubSeq(queue', Len(queue) + 1, Len(queue'))
    IN /\ SubSeq(queue', 1, Len(queue)) = queue
       /\ Len(added) = Cardinality(NonBlankWritten(w))
       /\ \A i \in NonBlankWritten(w) :
            \E j \in DOMAIN added :
              /\ added[j] = Output(Msg(w.written[i].text))
              /\ \A k \in NonBlankWritten(w) :
                   k < i => \E l \in 1..(j - 1) :
                              added[l] = Output(Msg(w.written[k].text))

C15_StreamsInterceptedAndRestored ==
  []C15_StreamsRestored /\ [][C15_WritesForwarded]_vars

\* C15 witness: the delegate wrote an error report to stderr and raised; the
\* report was forwarded, run() has returned and the streams are back.
C15_Witness ==
  /\ worker.kind = "download"
  /\ worker.pc = "returned"
  /\ streams = SystemStreams
  /\ Output(Msg("ERROR reported")) \in Range(queue)
  /\ HasOutcome
  /\ Outcome.message = Msg("Connection refused")

DescriptorKeys == {"path", "train", "val"}

HasDotDot(parts) == ".." \in Range(parts)

\* the compiler of an int8 task is about to be launched or has run
CopyHandedOver ==
  /\ worker.kind = "export"
  /\ worker.precision = "int8"
  /\ worker.pc \in {"e_popen", "e_result"}

\* C14, the copy: for each key of the descriptor that holds a relative
\* value, the temporary copy holds the absolute path of the descriptor's
\* directory joined with that value (with ".." components resolved), and
\* the command names the temporary copy, not the original.
C14_CopyResolved ==
  CopyHandedOver =>
    /\ worker.cmd.data = TempYaml
    /\ worker.cmd.data # worker.calibration_yaml_path
    /\ TempYaml \in fs
    /\ \A k \in DescriptorKeys :
         LET original == contents.calib[k]
             copied == contents.temp[k]
             joined == <<worker.calibration_yaml_path.dir>> \o original.parts
         IN (original.present /\ ~original.abs) =>
              /\ copied.present
              /\ copied.abs
              /\ ~HasDotDot(copied.parts)
              /\ ~HasDotDot(joined) => copied.parts = joined
              /\ HasDotDot(joined) => copied.parts = Normalized(joined)

\* C14, the original: no step of any task changes what the calibration
\* file holds or removes the file.
C14_OriginalUntouched ==
  /\ contents'.calib = contents.calib
  /\ CalibGood \in fs => CalibGood \in fs'

C14_CalibrationResolution ==
  []C14_CopyResolved /\ [][C14_OriginalUntouched]_vars

\* C14 witness: the compiler has run on a copy whose "train" key was
\* relative with a ".." component and whose "val" key was absolute.
C14_Witness ==
  /\ CopyHandedOver
  /\ worker.pc = "e_result"
  /\ contents.calib.train = Rel(<<"..", "shared", "train">>)
  /\ contents.temp.train = Abs(<<"shared", "train">>)
  /\ contents.temp.val = contents.calib.val

\* the entry _common_task_cleanup logs for an outcome
OutcomeLine(sig) ==
  MsgArgs(IF sig.success THEN "OK {}" ELSE "FAILED {}",
          <<sig.message.fmt>> \o sig.message.args)

LogEndsWith(w, sig) ==
  /\ Len(w.log_output) >= 2
  /\ w.log_output[Len(w.log_output) - 1] = Msg("--- Task Finished ---")
  /\ Last(w.log_output) = OutcomeLine(sig)

\* the state of the selected model on disk, as the window shows it
StatusRequeried(w) ==
  IF w.model_combo = << >>
  THEN /\ ~w.enabled["download_btn"]
       /\ \A p \in Precisions : ~w.enabled[BuildBtn(p)]
  ELSE LET m == w.model_combo
           pt == WeightsPath(m \o <<".pt">>)
           ready == pt \in fs /\ gpu /\ trt
       IN /\ w.enabled["download_btn"]
          /\ w.model_status_label = "Downloaded" <=> pt \in fs
          /\ w.enabled["btn_build_fp32"] <=> ready
          /\ w.enabled["btn_build_fp16"] <=> ready
          /\ w.enabled["btn_build_int8"]
               <=> (ready /\ w.calibration_yaml_path # None)
          /\ \A p \in Precisions :
               w.build_text[p] = <<"Rebuild">>
                 <=> WeightsPath(m \o <<"-", p, ".engine">>) \in fs

\* a completion handler returns: its message box is dismissed
HandlerReturns == Top = "done_box" /\ stack' = Front(stack)

\* the window handles an action of the user: a new selection, a new
\* calibration reference, a task trigger or a request to close
UserStep ==
  \/ started' # started
  \/ win'.version_combo # win.version_combo
  \/ win'.task_combo # win.task_combo
  \/ win'.model_combo # win.model_combo
  \/ win'.calibration_yaml_path # win.calibration_yaml_path
  \/ Len(stack') > Len(stack) /\ Last(stack').kind = "close_question"
  \/ window' # window /\ stack' = stack

\* C16: when a completion handler returns, for a success or a failure, the
\* log ends with the marker line followed by the outcome's message, the
\* selectors and the download button are enabled again and the window shows
\* the re-queried state of the selected model with the build buttons'
\* enablement re-evaluated; and no action of the user is handled between
\* the handler's entry and its return.
C16_CompletionStep ==
  /\ HandlerReturns =>
       /\ LogEndsWith(win', Last(stack).sig)
       /\ \A c \in {"version_combo", "task_combo", "model_combo",
                    "btn_pick_calib"} : win'.enabled[c]
       /\ win'.progress_bar = "hidden"
       /\ StatusRequeried(win')
  /\ UserStep => ~InHandler

C16_CompletionSequence == [][C16_CompletionStep]_vars

\* C16 witness: a build has succeeded and its handler has returned: the log
\* ends with the marker and the message, and the window shows the engine as
\* built.
C16_Witness ==
  /\ Idle
  /\ started = 1
  /\ worker.kind = "export"
  /\ Len(win.log_output) >= 2
  /\ win.log_output[Len(win.log_output) - 1] = Msg("--- Task Finished ---")
  /\ win.enabled["version_combo"]
  /\ win.build_text["fp16"] = <<"Rebuild">>

ErrorBoxes(frames) ==
  Cardinality({i \in DOMAIN frames : frames[i].box.icon = "critical"})

OutcomesBeingHandled(frames) ==
  Cardinality({i \in DOMAIN frames :
                 frames[i].kind \in {"cleanup_wait", "done_box"}})

\* C17, the notification: a failure outcome whose handler has reached its
\* message box is shown in a critical box whose text carries the failure
\* message, the log ends with the entry carrying that message, and a
\* critical box is shown for nothing else.
C17_FailureShown ==
  \A i \in DOMAIN stack :
    /\ (stack[i].kind = "done_box" /\ ~stack[i].sig.success)
         => /\ stack[i].box.icon = "critical"
            /\ IF stack[i].sig.sig = "download_complete"
               THEN stack[i].box.text = stack[i].sig.message
               ELSE Last(stack[i].box.text.args) = stack[i].sig.message
            /\ LogEndsWith(win, stack[i].sig)
    /\ stack[i].box.icon = "critical"
         => (stack[i].kind = "done_box" /\ ~stack[i].sig.success)

\* C17, exactly one: each terminal signal delivered enters one handler, the
\* handler opens one box for it, and a box is opened only that way; no step
\* of a handler starts a task, and a task is started only by a click on the
\* open window.
C17_OneBoxNoRetry ==
  /\ (queue # << >> /\ IsTerminal(Head(queue)) /\ queue' = Tail(queue))
       => /\ stack' = Append(stack, Frame("cleanup_wait", Head(queue)))
          /\ started' = started
  /\ Top = "cleanup_wait" /\ stack' # stack
       => /\ stack' = Append(Front(stack), Frame("done_box", Last(stack).sig))
          /\ started' = started
  /\ ErrorBoxes(stack') > ErrorBoxes(stack)
       => /\ Top = "cleanup_wait"
          /\ ErrorBoxes(stack') = ErrorBoxes(stack) + 1
  /\ OutcomesBeingHandled(stack') <= 1
  /\ started' # started => (stack = << >> /\ window = "open" /\ ~InHandler)

C17_FailureSurfacedOnce == []C17_FailureShown /\ [][C17_OneBoxNoRetry]_vars

\* C17 witness: a build failed and its critical box is open, with the
\* failure entry last in the log.
C17_Witness ==
  /\ Top = "done_box"
  /\ Last(stack).sig.sig = "done"
  /\ ~Last(stack).sig.success
  /\ Last(stack).box.icon = "critical"
  /\ Last(stack).sig.message = Msg("Engine build failed.")
  /\ Last(win.log_output) = MsgArgs("FAILED {}", <<"Engine build failed.">>)

\* the reasons a build button of the selected model is disabled for
ReasonsDisabled(p) ==
  {TipPrereq : x \in {1} \cap (IF gpu /\ trt THEN {} ELSE {1})}
    \cup {TipDownload :
            x \in {1} \cap (IF is_model_downloaded(win.model_combo)
                            THEN {} ELSE {1})}
    \cup {TipCalib :
            x \in {1} \cap (IF /\ p = "int8"
                               /\ gpu /\ trt
                               /\ is_model_downloaded(win.model_combo)
                               /\ win.calibration_yaml_path = None
                            THEN {1} ELSE {})}

\* C18 as stated: with a model selected and no task in flight, the tooltip
\* of a disabled build button names a reason that applies to it.
C18_RationaleNamesReason ==
  (Idle /\ ModelSelected) =>
    \A p \in Precisions :
      ~win.enabled[BuildBtn(p)] => win.tooltip[p] \in ReasonsDisabled(p)

QuestionAsked ==
  Len(stack') > Len(stack) /\ Last(stack').kind = "close_question"

\* C19: a request to close the window while the worker thread runs opens
\* the confirmation and leaves the window open; with no task the window
\* closes at once, with no question.  Declining leaves the window open and
\* the worker as it was.  The window closes only when run() has returned,
\* and while run() is in progress no step ends the thread or drops the
\* worker.
C19_CloseStep ==
  /\ (Responsive /\ thread_running) => window' = "open"
  /\ QuestionAsked => (thread_running /\ window' = "open" /\ worker' = worker)
  /\ (Responsive /\ ~thread_running) => ~QuestionAsked
  /\ (Top = "close_question" /\ stack' # stack /\ Len(stack') <= Len(stack))
       => /\ window' = "open"
          /\ worker' = worker
          /\ thread_running' = thread_running
  /\ (window = "open" /\ window' = "closed")
       => /\ worker.pc \in {"none", "returned"}
          /\ ~thread_running'
          /\ Top = "close_wait" \/ (stack = << >> /\ ~thread_running)
  /\ worker.pc \notin {"none", "returned"}
       => /\ thread_running'
          /\ worker'.kind = worker.kind
          /\ worker'.pc # "none"

C19_CloseNeverInterrupts == [][C19_CloseStep]_vars

\* C19 witness: the user confirmed closing while a task ran; the window
\* closed after run() had returned, with the outcome still undelivered.
C19_Witness ==
  /\ window = "closed"
  /\ started >= 1
  /\ worker.pc = "returned"
  /\ queue # << >>
  /\ IsTerminal(Last(queue))

\* the category an identifier's suffix stands for
SuffixCategory(m) ==
  CASE Len(m) = 1 -> "Detection"
    [] Len(m) > 1 /\ m[2] = "-seg" -> "Segmentation"
    [] Len(m) > 1 /\ m[2] = "-pose" -> "Pose"
    [] Len(m) > 1 /\ m[2] = "-obb" -> "OBB"
    [] Len(m) > 1 /\ m[2] = "-cls" -> "Classification"

CategoryRank ==
  [c \in {"Detection", "Segmentation", "Pose", "OBB", "Classification"} |->
     CASE c = "Detection" -> 1
       [] c = "Segmentation" -> 2
       [] c = "Pose" -> 3
       [] c = "OBB" -> 4
       [] c = "Classification" -> 5]

QueryStep == answer' # answer

\* the identifier without a ".pt" ending
Identifier(m) == IF Len(m) > 0 /\ Last(m) = ".pt" THEN Front(m) ELSE m

\* the file a query is about, with the weight file at <m>.pt
FileAsStated(q) ==
  IF q.call = "is_model_downloaded"
  THEN [dir |-> "weights", name |-> q.model \o <<".pt">>]
  ELSE [dir |-> "weights",
        name |-> Identifier(q.model) \o <<"-", q.precision, ".engine">>]

\* the file a query is about, with the weight file at <m>.pt, or at <m>
\* when m ends in ".pt" already
FileQueried(q) ==
  IF q.call = "is_model_downloaded"
  THEN [dir |-> "weights", name |-> Identifier(q.model) \o <<".pt">>]
  ELSE [dir |-> "weights",
        name |-> Identifier(q.model) \o <<"-", q.precision, ".engine">>]

C22_DownloadEnablement ==
  Idle => (win.enabled["download_btn"] <=> ModelSelected)

\* C22 witness: a download has succeeded and has been handled; the model's
\* weights are on disk and the button, now "Re-download Model", is enabled.
C22_Witness ==
  /\ Idle
  /\ started >= 1
  /\ worker.kind = "download"
  /\ ModelSelected
  /\ is_model_downloaded(win.model_combo)
  /\ win.download_text = "Re-download Model"
  /\ win.enabled["download_btn"]

\* a version or a category has been selected
SelectionChanged ==
  \/ win'.version_combo # win.version_combo
  \/ win'.task_combo # win.task_combo

\* the selectors of w hold the categories and the models of w's version and
\* category, with the first model current
Cascaded(w) ==
  LET ids == w.model_data[w.version_combo]
      InCategory(m) == SuffixCategory(m) = w.task_combo
  IN /\ Range(w.task_items) = {SuffixCategory(m) : m \in Range(ids)}
     /\ \/ w.task_combo \in Range(w.task_items)
        \/ w.task_items = << >> /\ w.task_combo = ""
     /\ w.model_items = SelectSeq(ids, InCategory)
     /\ w.model_combo =
          (IF w.model_items = << >> THEN << >> ELSE w.model_items[1])

C24_PickerSets ==
  (Responsive /\ win.enabled["btn_pick_calib"]) =>
    \A file \in PickerFiles \cup {None} :
      /\ _select_calibration_data(win, file).calibration_yaml_path = file
      /\ _select_calibration_data(win, file).lbl_calib = file

\* C24, the steps: the calibration reference changes only in a step of the
\* calibration picker; a selection of a version, category or model, the
\* start of a task, and every step of a task and of its completion leave it
\* as it was.
C24_CalibrationStep ==
  /\ win'.calibration_yaml_path # win.calibration_yaml_path
       => \E file \in PickerFiles \cup {None} : SelectCalibration(file)
  /\ ( \/ win'.version_combo # win.version_combo
       \/ win'.task_combo # win.task_combo
       \/ win'.model_combo # win.model_combo
       \/ started' # started
       \/ stack' # stack
       \/ queue' # queue
       \/ worker' # worker )
     => win'.calibration_yaml_path = win.calibration_yaml_path

C24_CalibrationHeld == []C24_PickerSets /\ [][C24_CalibrationStep]_vars

\* C24 witness: the reference the user picked is still set while the second
\* task, an fp16 build, is in flight.
C24_Witness ==
  /\ started = 2
  /\ TaskInFlight
  /\ worker.kind = "export"
  /\ worker.precision = "fp16"
  /\ worker.pc = "e_popen"
  /\ win.calibration_yaml_path = CalibGood

\* C25 as stated: once a download task has reported success for m, the
\* weights query for m returns true; once a compile task has reported
\* success for (m, p), the build-status query for (m, p) returns true.
C25_PathAgreement ==
  /\ (worker.pc = "d_finally" /\ HasOutcome /\ Outcome.success)
       => is_model_downloaded(worker.model_name)
  /\ (worker.pc = "e_finally" /\ HasOutcome /\ Outcome.success)
       => is_engine_built(Outcome.model_name, Outcome.precision)

\* a build trigger fires: a compile task is started
BuildStarts == started' # started /\ worker'.kind = "export"

\* C26: a compile task is started only from the open window with no handler
\* in progress, for the selected model, and only when the last re-query
\* found the model's weights on disk, the GPU is available, TensorRT is
\* installed and, for int8, the calibration reference is set.
C26_BuildStep ==
  BuildStarts =>
    /\ stack = << >>
    /\ ~InHandler
    /\ ModelSelected
    /\ worker'.model_name = win.model_combo
    /\ win.model_status_label = "Downloaded"
    /\ is_model_downloaded(win.model_combo)
    /\ gpu
    /\ trt
    /\ worker'.precision = "int8"
         => /\ win.calibration_yaml_path # None
            /\ worker'.calibration_yaml_path = win.calibration_yaml_path

C26_BuildPrerequisites == [][C26_BuildStep]_vars

\* C26 witness: the weights of yolov8s, absent at startup, were downloaded
\* by the first task; after its handler re-enabled the controls and
\* re-queried the status, an int8 build of yolov8s has been started.
C26_Witness ==
  /\ started = 2
  /\ TaskInFlight
  /\ worker.kind = "export"
  /\ worker.precision = "int8"
  /\ worker.model_name = <<"yolov8s">>
  /\ worker.pc = "e_begin"
  /\ win.calibration_yaml_path # None

\* C27 as stated: the model selector lists, once each, exactly the
\* identifiers of the selected version that were classified into the
\* selected category, so an identifier is listed under its own category and
\* under no other.
C27_FilterAgreesWithClassification ==
  LET ids == Range(win.model_data[win.version_combo])
      items == win.model_items
  IN /\ \A m \in ids :
          (m \in Range(items)) <=> (Classify(m) = win.task_combo)
     /\ \A i, j \in DOMAIN items : i # j => items[i] # items[j]

\* the files of a compile task for (m, p): <m>.engine, which the compiler
\* writes, and <m>-<p>.engine
TaskGeneric == [dir |-> "weights", name |-> worker.model_name \o <<".engine">>]

TaskEngine ==
  [dir |-> "weights",
   name |-> worker.model_name \o <<"-", worker.precision, ".engine">>]

\* C28: a step of a compile task for (m, p) leaves every file of the weights
\* directory other than <m>.engine and <m>-<p>.engine as it was, present or
\* absent: the weight file and the engines of the other precisions; it
\* never removes <m>-<p>.engine; and it writes <m>-<p>.engine, by renaming
\* <m>.engine, only in the step that reports success, so a task that ends
\* in a failure outcome has left an engine built earlier in place.
C28_CompileStep ==
  ExportActive =>
    /\ \A f \in (fs \cup fs') \ {TaskGeneric, TaskEngine} :
         f.dir = "weights" => (f \in fs <=> f \in fs')
    /\ TaskEngine \in fs => TaskEngine \in fs'
    /\ (TaskGeneric \in fs /\ TaskGeneric \notin fs')
         => (TaskEngine \in fs' /\ ReportsAfterStep(TRUE))
    /\ (TaskEngine \notin fs /\ TaskEngine \in fs')
         => ReportsAfterStep(TRUE)

C28_OtherArtifactsUntouched == [][C28_CompileStep]_vars

\* C28 witness: an fp16 compile task found the fp16 and int8 engines built;
\* the compiler wrote <m>.engine and exited 1, the task reported failure and
\* the weight file and both engines are still there.
C28_Witness ==
  /\ worker.kind = "export"
  /\ worker.pc = "e_finally"
  /\ worker.precision = "fp16"
  /\ worker.returncode = {1}
  /\ HasOutcome
  /\ ~Outcome.success
  /\ TaskGeneric \in fs
  /\ TaskEngine \in fs
  /\ WeightsPath(worker.model_name \o <<"-", "int8", ".engine">>) \in fs
  /\ WeightsPath(worker.model_name \o <<".pt">>) \in fs

IsPrefix(a, b) == Len(a) <= Len(b) /\ SubSeq(b, 1, Len(a)) = a

IsOutput(sig) == sig.sig = "output"

StartLines == {Msg("Starting model download"), Msg("Starting engine build")}

\* C29, the state of the log: a worker emits nothing after its terminal
\* outcome; while a task is outstanding the log begins with the task's start
\* line, and the marker is in it only once the handler has passed wait(),
\* and then the log ends with the marker and the outcome message and no
\* notification is left undelivered.
C29_LogShape ==
  /\ \A i \in DOMAIN queue : IsTerminal(queue[i]) => i = Len(queue)
  /\ (TaskOutstanding /\ window = "open") =>
       /\ Len(win.log_output) >= 1
       /\ win.log_output[1] \in StartLines
       /\ \A i \in DOMAIN win.log_output :
            win.log_output[i] = Msg("--- Task Finished ---")
              => /\ i = Len(win.log_output) - 1
                 /\ \E k \in DOMAIN stack :
                      /\ stack[k].kind = "done_box"
                      /\ win.log_output[i + 1] = OutcomeLine(stack[k].sig)
                 /\ queue = << >>

\* C29, the steps: a task's start leaves the log holding the start line
\* alone, with no notification of an earlier task queued; from then until
\* its handler returns, an emission adds to the end of the queue and leaves
\* the log as it is, and a delivery takes the head of the queue: a progress
\* line is appended to the end of the log, and the terminal outcome is
\* delivered when no progress line is left; the marker and the outcome
\* message are appended after it, and nothing else changes the log.
C29_LogStep ==
  /\ started' # started
       => /\ win'.log_output \in {<<l>> : l \in StartLines}
          /\ queue = << >>
          /\ queue' = << >>
  /\ (TaskOutstanding /\ window' = "open" /\ started' = started)
       => /\ Len(queue') >= Len(queue)
               => /\ IsPrefix(queue, queue')
                  /\ win'.log_output # win.log_output
                       => (Top = "cleanup_wait" /\ stack' # stack)
          /\ Len(queue') < Len(queue)
               => /\ queue' = Tail(queue)
                  /\ IsOutput(Head(queue))
                       => win'.log_output
                            = Append(win.log_output, Head(queue).text)
                  /\ IsTerminal(Head(queue))
                       => /\ queue' = << >>
                          /\ win'.log_output = win.log_output
          /\ (Top = "cleanup_wait" /\ stack' # stack)
               => /\ queue = << >>
                  /\ win'.log_output
                       = win.log_output
                           \o <<Msg("--- Task Finished ---"),
                                OutcomeLine(Last(stack).sig)>>

C29_LogOrdering == []C29_LogShape /\ [][C29_LogStep]_vars

\* C29 witness: a download's delegate wrote progress and then an error
\* report; the log holds the start line, the worker's lines in the order
\* emitted, and the marker and the outcome message after them.
C29_Witness ==
  /\ Top = "done_box"
  /\ Len(win.log_output) = 7
  /\ win.log_output[1] = Msg("Starting model download")
  /\ win.log_output[2] = Msg("Starting to download model")
  /\ win.log_output[3] = Msg("Downloading weights")
  /\ win.log_output[4] = Msg("ERROR reported")
  /\ win.log_output[6] = Msg("--- Task Finished ---")
  /\ win.log_output[7] = OutcomeLine(Last(stack).sig)

\* C30 as stated: with a model selected and no task in flight, an enabled
\* build button carries no rationale, and the rationale a disabled one
\* carries is a reason that applies to it now.
C30_NoStaleRationale ==
  (Idle /\ ModelSelected) =>
    \A p \in Precisions :
      /\ win.enabled[BuildBtn(p)] => win.tooltip[p] = ""
      /\ win.tooltip[p] # "" =>
           (~win.enabled[BuildBtn(p)] /\ win.tooltip[p] \in ReasonsDisabled(p))

====
